---- MODULE Spec2Model ----
(***************************************************************************)
(* Repository mining and job orchestration of repo-analyzer-webui.         *)
(*                                                                         *)
(* The job orchestrator is JobManager (app/services/job_manager.py); a     *)
(* run of run_analysis_task calls run_analysis of                          *)
(* app/services/simplified_repo_analyzer.py, the function whose six        *)
(* arguments and (results, error) tuple the call at job_manager.py:71      *)
(* uses.                                                                   *)
(*                                                                         *)
(* Environment.  The jobs table executes the reads and updates of          *)
(* existing rows.  What can fail is: creating the output directory,        *)
(* entering a repository directory, the git child processes, the payload   *)
(* and report writes, reading the report file, and the access to a         *)
(* tracked repository.  An exception carries a non-empty message.          *)
(***************************************************************************)
EXTENDS Integers, Sequences, FiniteSets, TLC

\* Bound of the model: the runs handed to the host.  Every job comes with
\* a run, so there are at most as many jobs.
MaxTasks == 2

\* SQL NULL / Python None in a text column or an Optional[str] field.
NULL == "NULL"

\* datetime.now().isoformat(): a set timestamp.
Timestamp == "ts"

(***************************************************************************)
(* The state.                                                              *)
(***************************************************************************)
VARIABLES
    jobs,           \* table jobs: id -> row
    job_data,       \* table job_data: job id -> analysis data
    job_reports,    \* table job_reports: job id -> report content
    repositories,   \* table repositories: id -> tracked repository
    tasks,          \* the background tasks handed to the host, in submission order
    cwd,            \* the working directory of the process (os.getcwd())
    mining,         \* the mining calls of the process's threads
    roots,          \* the directories of the filesystem that hold a .git directory
    found,          \* the last answer of the Repository Discoverer
    summaries,      \* summary_stats of analyze_repos: the repositories summarised
    aggregate,      \* aggregate_stats of analyze_repos
    workers,        \* the run_analysis loops of the process's threads
    history,        \* the last parse of a `git log` output
    sampled         \* the last run of the diff loop of get_code_stats

(***************************************************************************)
(* The filesystem the jobs are run against.                                *)
(***************************************************************************)
BaseDirs == {"/empty", "/single", "/multi", "/locked"}

\* os.walk: the sub-directories of a directory, in listing order, .git removed.
Children(d) ==
    CASE d = "/empty"  -> << "/empty/docs" >>
      [] d = "/single" -> << "/single/src" >>
      [] d = "/multi"  -> << "/multi/a", "/multi/b" >>
      [] d = "/multi/a" -> << "/multi/a/sub" >>
      [] d = "/locked" -> << "/locked/x", "/locked/y", "/locked/z" >>
      [] OTHER -> << >>

\* The repositories of the filesystem the jobs are run against.
GitRoots ==
    {"/single", "/multi/a", "/multi/a/sub", "/multi/b",
     "/locked/x", "/locked/y", "/locked/z"}

\* os.path.isdir(os.path.join(root, ".git"))
HasGit(d) == d \in roots

\* os.path.basename(repo_path) / os.path.relpath(repo_path, base_dir)
RepoName(base_dir, repo_path) ==
    IF repo_path = base_dir
    THEN CASE repo_path = "/single" -> "single"
           [] repo_path = "/empty" -> "empty"
           [] repo_path = "/multi" -> "multi"
           [] repo_path = "/locked" -> "locked"
           [] OTHER -> repo_path
    ELSE CASE repo_path = "/multi/a" -> "a"
           [] repo_path = "/empty/docs" -> "docs"
           [] repo_path = "/single/src" -> "src"
           [] repo_path = "/multi/a/sub" -> "a/sub"
           [] repo_path = "/multi/b" -> "b"
           [] repo_path = "/locked/x" -> "x"
           [] repo_path = "/locked/y" -> "y"
           [] repo_path = "/locked/z" -> "z"
           [] OTHER -> repo_path

\* What a repository directory is like: "ok"; "corrupt" (git exits non-zero
\* there); "unreadable" (os.chdir into it raises).
Health(p) ==
    CASE p = "/multi/a/sub" -> "corrupt"
      [] p = "/locked/y" -> "unreadable"
      [] OTHER -> "ok"

\* The committer timestamps of `git log --all`, in log order (newest first).
LogOf(p) ==
    CASE p = "/single" -> << 30, 20, 10 >>
      [] p = "/multi/a" -> << 25, 15 >>
      [] p = "/multi/b" -> << 40 >>
      [] p = "/locked/x" -> << 12, 11 >>
      [] p = "/locked/z" -> << 50 >>
      [] OTHER -> << >>

\* The local branches `git branch -a` lists (remotes/ lines are skipped).
BranchesOf(p) ==
    CASE p = "/single" -> << "main", "dev" >>
      [] OTHER -> << "main" >>

\* The insertions `git diff --shortstat` reports for the i-th commit of the log.
InsertionsOf(p, i) == i + 1

\* The source files of the working tree (allow-listed extensions).
SourceFilesOf(p) == IF p = "/single" THEN 3 ELSE 1

(***************************************************************************)
(* Repository Discoverer                                                   *)
(***************************************************************************)
RECURSIVE WalkAll(_, _)
RECURSIVE Walk(_, _)
\* The walk of a list of sibling directories, each with its subtree.
WalkAll(ds, recursive) ==
    IF ds = << >> THEN << >>
    ELSE Walk(Head(ds), recursive) \o WalkAll(Tail(ds), recursive)

\* Walk, had the dirs.clear() of lines 54-55 been left out.
Walk_NoPrune(d, recursive) ==
    LET here == IF HasGit(d) THEN << d >> ELSE << >>
    IN  here \o WalkAll(Children(d), recursive)

\* os.walk top-down from d: d is reported when it holds .git, and its
\* subtree is pruned (dirs.clear()) when it does and recursive is false.
Walk(d, recursive) ==
    LET here == IF HasGit(d) THEN << d >> ELSE << >>
        dirs == IF HasGit(d) /\ ~recursive THEN << >> ELSE Children(d)
    IN  here \o WalkAll(dirs, recursive)

RECURSIVE Dedup(_, _)
\* found_repo_paths: a path already reported is skipped.
Dedup(ps, seen) ==
    IF ps = << >> THEN << >>
    ELSE IF Head(ps) \in seen THEN Dedup(Tail(ps), seen)
         ELSE << Head(ps) >> \o Dedup(Tail(ps), seen \cup {Head(ps)})

find_git_repos(base_dir, recursive) ==
    LET paths == Dedup(Walk(base_dir, recursive), {})
    IN  [k \in 1..Len(paths) |->
            [name |-> RepoName(base_dir, paths[k]), path |-> paths[k]]]

(***************************************************************************)
(* History Extractor and Code Volume Sampler.  A call returns               *)
(* [raised, msg, value]: raised when an exception leaves the function.     *)
(***************************************************************************)
ChdirError == "Permission denied"

\* get_commit_history, had the except clause of lines 100-102 been left out.
get_commit_history_Propagates(p) ==
    CASE Health(p) = "unreadable" ->
            [raised |-> TRUE, msg |-> ChdirError, value |-> << >>]
      [] Health(p) = "corrupt" ->
            [raised |-> TRUE, msg |-> "returned non-zero exit status", value |-> << >>]
      [] OTHER ->
            [raised |-> FALSE, msg |-> NULL, value |-> LogOf(p)]

get_commit_history(p) ==
    CASE Health(p) = "unreadable" ->
            [raised |-> TRUE, msg |-> ChdirError, value |-> << >>]
      [] Health(p) = "corrupt" ->
            [raised |-> FALSE, msg |-> NULL, value |-> << >>]
      [] OTHER ->
            [raised |-> FALSE, msg |-> NULL, value |-> LogOf(p)]

get_branch_info(p) ==
    CASE Health(p) = "unreadable" ->
            [raised |-> TRUE, msg |-> ChdirError, value |-> << >>]
      [] Health(p) = "corrupt" ->
            [raised |-> FALSE, msg |-> NULL, value |-> << >>]
      [] OTHER ->
            [raised |-> FALSE, msg |-> NULL, value |-> BranchesOf(p)]

RECURSIVE SumInsertions(_, _)
SumInsertions(p, n) ==
    IF n = 0 THEN 0 ELSE InsertionsOf(p, n) + SumInsertions(p, n - 1)

\* Every exception is caught inside and turned into the zero statistics.
get_code_stats(p, commits) ==
    IF Health(p) = "unreadable" \/ commits = << >>
    THEN [total_lines |-> 0, file_count |-> 0]
    ELSE [total_lines |-> SumInsertions(p, Len(commits)),
          file_count |-> SourceFilesOf(p)]

RECURSIVE MaxOf(_)
\* max() of a non-empty sequence.
MaxOf(s) ==
    IF Len(s) = 1 THEN s[1]
    ELSE LET m == MaxOf(Tail(s)) IN IF s[1] >= m THEN s[1] ELSE m

RECURSIVE MinOf(_)
\* min() of a non-empty sequence.
MinOf(s) ==
    IF Len(s) = 1 THEN s[1]
    ELSE LET m == MinOf(Tail(s)) IN IF s[1] <= m THEN s[1] ELSE m

\* sorted(commits, key=lambda x: x['commit_date'])
Sorted(commits) == SortSeq(commits, LAMBDA a, b : a < b)

\* 24 * 60 * 60, the seconds of a day.
Day == 86400

\* The quotient num / den of a float division, kept exact.
Ratio(num, den) == [num |-> num, den |-> den]

\* CommitsPerDay, had the days been the whole days of the span
\* ((latest - earliest).days) with the same floor of 1.
CommitsPerDay_WholeDays(n, span) ==
    IF span \div Day <= 1 THEN Ratio(n, 1) ELSE Ratio(n, span \div Day)

\* len(commits) / max(1, span.total_seconds() / (24 * 60 * 60))
CommitsPerDay(n, span) ==
    IF span <= Day THEN Ratio(n, 1) ELSE Ratio(n * Day, span)

\* The counts of the summary, and first_commit, last_commit and
\* commits_per_day when there is a commit (<< >> when the key is absent).
calculate_repo_summary(repo_name, commits, branches, code_stats) ==
    LET sorted_commits == Sorted(commits)
        earliest == sorted_commits[1]
        latest == sorted_commits[Len(commits)]
    IN  [name |-> repo_name,
         num_commits |-> Len(commits),
         num_branches |-> Len(branches),
         total_lines |-> code_stats.total_lines,
         file_count |-> code_stats.file_count,
         first_commit |-> IF commits = << >> THEN << >> ELSE << earliest >>,
         last_commit |-> IF commits = << >> THEN << >> ELSE << latest >>,
         commits_per_day |->
            IF commits = << >> THEN << >>
            ELSE << CommitsPerDay(Len(commits), latest - earliest) >>]

\* analyze_repository: the three mining calls in order, then the summary.
\* calls counts the mining calls made, the raising one included.
analyze_repository(repo_path) ==
    LET c == get_commit_history(repo_path)
        b == get_branch_info(repo_path)
        stats == get_code_stats(repo_path, c.value)
    IN  IF c.raised
        THEN [raised |-> TRUE, msg |-> c.msg, calls |-> 1,
              data |-> [path |-> repo_path, commits |-> << >>, branches |-> << >>,
                        summary |-> calculate_repo_summary(repo_path, << >>, << >>,
                                        [total_lines |-> 0, file_count |-> 0])]]
        ELSE IF b.raised
        THEN [raised |-> TRUE, msg |-> b.msg, calls |-> 2,
              data |-> [path |-> repo_path, commits |-> << >>, branches |-> << >>,
                        summary |-> calculate_repo_summary(repo_path, << >>, << >>,
                                        [total_lines |-> 0, file_count |-> 0])]]
        ELSE [raised |-> FALSE, msg |-> NULL, calls |-> 3,
              data |-> [path |-> repo_path, commits |-> c.value, branches |-> b.value,
                        summary |-> calculate_repo_summary(repo_path, c.value,
                                        b.value, stats)]]

(***************************************************************************)
(* Job Orchestrator.                                                       *)
(***************************************************************************)
\* The state of the mining calls, which the steps of the orchestrator
\* leave alone.
aside == << cwd, mining, roots, found, summaries, aggregate, workers, history, sampled >>

vars == << jobs, job_data, job_reports, repositories, tasks, aside >>

\* Bound of the model: the threads of the process that make mining calls.
MaxThreads == 2

Threads == 1..MaxThreads

\* The directory the server process is started in.
ServerDir == "/srv"

\* A thread that is not in a mining call.
IdleCall ==
    [pc |-> "idle", fn |-> NULL, repo_path |-> NULL, original_dir |-> NULL,
     result |-> NULL, entered_from |-> NULL, left_in |-> NULL, alone |-> TRUE]

JobIds == 1..MaxTasks
\* An id no job record has.
UnknownId == MaxTasks + 1

TrackedIds == {"r1"}

\* AnalysisRequest (models/job.py): what POST /analyze carries.
Requests ==
    [repo_path : BaseDirs, recursive : BOOLEAN, skip_confirmation : BOOLEAN,
     repo_id : TrackedIds \cup {NULL}]

\* Python truthiness of an Optional[str].
Truthy(s) == s \notin {NULL, ""}

\* The report file generate_report writes for a repository of a job;
\* << >> is None.
ReportFile(job_id, repo_name) == << job_id, repo_name >>

\* A job object before the record is read.
NoJob ==
    [id |-> UnknownId, status |-> NULL, completed_at |-> NULL, repo_path |-> NULL,
     report_path |-> << >>, error |-> NULL, repo_id |-> NULL]

\* The frame of run_analysis_task as the host receives it.  discovered,
\* writes (update_job calls made) and calls (mining calls made) record what
\* the run has done.
NewTask(job_id, req) ==
    [pc |-> "start", job_id |-> job_id, repo_path |-> req.repo_path,
     recursive |-> req.recursive, skip_confirmation |-> req.skip_confirmation,
     repo_id |-> req.repo_id, job |-> NoJob, discovered |-> FALSE,
     repos |-> << >>, idx |-> 0,
     results |-> << >>, error |-> NULL, exc |-> NULL, report_path |-> << >>,
     writes |-> 0, calls |-> 0]

\* create_job, had it inserted the row as already running.
create_job_Running(job_id, repo_path, repo_id) ==
    [id |-> job_id, status |-> "running", completed_at |-> NULL,
     repo_path |-> repo_path, report_path |-> << >>, error |-> NULL,
     repo_id |-> repo_id]

\* JobManager.create_job: the inserted row.
create_job(job_id, repo_path, repo_id) ==
    [id |-> job_id, status |-> "pending", completed_at |-> NULL,
     repo_path |-> repo_path, report_path |-> << >>, error |-> NULL,
     repo_id |-> repo_id]

\* JobManager.update_job: UPDATE jobs SET status, completed_at, report_path,
\* error WHERE id; no row, no change.
update_job(table, job) ==
    IF job.id \in DOMAIN table
    THEN [table EXCEPT ![job.id] =
            [@ EXCEPT !.status = job.status, !.completed_at = job.completed_at,
                      !.report_path = job.report_path, !.error = job.error]]
    ELSE table

\* INSERT or UPDATE of the row keyed by the job id.
Upsert(table, job_id, value) ==
    [k \in DOMAIN table \cup {job_id} |-> IF k = job_id THEN value ELSE table[k]]

save_job_data(table, job_id, data) == Upsert(table, job_id, data)

save_job_report(table, job_id, content) == Upsert(table, job_id, content)

\* calculate_aggregate_stats has not been called.
NoAggregate == [called |-> FALSE]

\* The commits variable of analyze_repository before get_commit_history
\* has returned: the directory git log ran in and the log it printed.
NoLog == [origin |-> NULL, log |-> << >>]

\* A thread that has not been handed a run_analysis call.
IdleWorker ==
    [pc |-> "idle", repos |-> << >>, idx |-> 0, fn |-> NULL, original_dir |-> NULL,
     commits |-> NoLog, branches |-> << >>, total_lines |-> 0, file_count |-> 0,
     i |-> 0, raised |-> FALSE, error |-> NULL, results |-> << >>, issued |-> << >>]

\* get_commit_history has parsed no output.
NoHistory == [called |-> FALSE]

\* get_code_stats has run no diff loop.
NoSample == [called |-> FALSE]

\* No call of the Repository Discoverer has been answered.
NoDiscovery == [base_dir |-> NULL, recursive |-> FALSE, repos |-> << >>]

Init ==
    /\ jobs = << >>
    /\ job_data = << >>
    /\ job_reports = << >>
    /\ repositories = [r \in TrackedIds |->
            [last_analysis_job_id |-> << >>, last_commit_date |-> << >>,
             analysis_summary |-> << >>]]
    /\ tasks = << >>
    /\ cwd = ServerDir
    /\ mining = [m \in Threads |-> IdleCall]
    /\ roots = GitRoots
    /\ found = NoDiscovery
    /\ summaries = << >>
    /\ aggregate = NoAggregate
    /\ workers = [m \in Threads |-> IdleWorker]
    /\ history = NoHistory
    /\ sampled = NoSample

(***************************************************************************)
(* Submission.                                                             *)
(***************************************************************************)
\* POST /analyze: create_job, then add_task(run_analysis_task, ...).
\* uuid4 gives an id no record has.
start_analysis(req) ==
    /\ Len(tasks) < MaxTasks
    /\ LET job_id == Cardinality(DOMAIN jobs) + 1
       IN  /\ jobs' = Upsert(jobs, job_id, create_job(job_id, req.repo_path, req.repo_id))
           /\ tasks' = Append(tasks, NewTask(job_id, req))
    /\ UNCHANGED << job_data, job_reports, repositories, aside >>

\* The arguments the first run of a job was submitted with.
ArgsOf(job_id) ==
    LET k == CHOOSE i \in 1..Len(tasks) : tasks[i].job_id = job_id
    IN  [repo_path |-> tasks[k].repo_path, recursive |-> tasks[k].recursive,
         skip_confirmation |-> tasks[k].skip_confirmation, repo_id |-> tasks[k].repo_id]

\* run_analysis_task handed to the host once more for a job that has a record.
Resubmit(job_id) ==
    /\ Len(tasks) < MaxTasks
    /\ job_id \in DOMAIN jobs
    /\ tasks' = Append(tasks, NewTask(job_id, ArgsOf(job_id)))
    /\ UNCHANGED << jobs, job_data, job_reports, repositories, aside >>

\* run_analysis_task handed to the host with an id that has no record.
RunUnknown(req) ==
    /\ Len(tasks) < MaxTasks
    /\ \A i \in 1..Len(tasks) : tasks[i].job_id # UnknownId
    /\ tasks' = Append(tasks, NewTask(UnknownId, req))
    /\ UNCHANGED << jobs, job_data, job_reports, repositories, aside >>

(***************************************************************************)
(* run_analysis_task, step by step.  k is the task.                        *)
(***************************************************************************)
At(k, pc) == k \in 1..Len(tasks) /\ tasks[k].pc = pc

\* `raise`: control goes to the except clause of line 153 with the message.
Raise(t, msg) == [t EXCEPT !.pc = "except", !.exc = msg]

\* line 62: job = self.get_job(job_id)
GetJob(k) ==
    /\ At(k, "start")
    /\ LET t == tasks[k]
       IN  tasks' = [tasks EXCEPT ![k] =
                IF t.job_id \in DOMAIN jobs
                THEN [t EXCEPT !.pc = "loaded", !.job = jobs[t.job_id]]
                ELSE Raise(t, "Job not found")]
    /\ UNCHANGED << jobs, job_data, job_reports, repositories, aside >>

\* MarkRunning, had the update_job call of line 64 been left out.
MarkRunning_NotPersisted(k) ==
    /\ At(k, "loaded")
    /\ LET t == tasks[k]
           job == [t.job EXCEPT !.status = "running"]
       IN  tasks' = [tasks EXCEPT ![k] = [t EXCEPT !.pc = "running", !.job = job]]
    /\ UNCHANGED << jobs, job_data, job_reports, repositories, aside >>

\* lines 63-64: job.status = "running"; self.update_job(job)
MarkRunning(k) ==
    /\ At(k, "loaded")
    /\ LET t == tasks[k]
           job == [t.job EXCEPT !.status = "running"]
       IN  /\ jobs' = update_job(jobs, job)
           /\ tasks' = [tasks EXCEPT ![k] =
                    [t EXCEPT !.pc = "running", !.job = job, !.writes = @ + 1]]
    /\ UNCHANGED << job_data, job_reports, repositories, aside >>

\* lines 67-68: os.makedirs(output_dir, exist_ok=True)
MakeOutputDir(k, ok) ==
    /\ At(k, "running")
    /\ LET t == tasks[k]
       IN  tasks' = [tasks EXCEPT ![k] =
                IF ok THEN [t EXCEPT !.pc = "analysis"]
                ELSE Raise(t, "makedirs failed")]
    /\ UNCHANGED << jobs, job_data, job_reports, repositories, aside >>

\* Discover, had the `if not repos` return of lines 435-437 been left out:
\* the loop runs zero times and ({}, None) is returned.
Discover_NoEmptyCheck(k) ==
    /\ At(k, "analysis")
    /\ LET t == tasks[k]
           repos == find_git_repos(t.repo_path, t.recursive)
       IN  tasks' = [tasks EXCEPT ![k] =
                IF Len(repos) = 0
                THEN [t EXCEPT !.pc = "returned", !.repos = repos, !.discovered = TRUE]
                ELSE IF ~t.skip_confirmation /\ Len(repos) > 1
                THEN [t EXCEPT !.pc = "returned", !.repos = repos, !.discovered = TRUE,
                               !.error = "Confirmation required for multiple repositories"]
                ELSE [t EXCEPT !.pc = "mining", !.repos = repos, !.discovered = TRUE,
                               !.idx = 1]]
    /\ UNCHANGED << jobs, job_data, job_reports, repositories, aside >>

\* Discover, had the confirmation gate of lines 441-443 been left out.
Discover_NoConfirmationGate(k) ==
    /\ At(k, "analysis")
    /\ LET t == tasks[k]
           repos == find_git_repos(t.repo_path, t.recursive)
       IN  tasks' = [tasks EXCEPT ![k] =
                IF Len(repos) = 0
                THEN [t EXCEPT !.pc = "returned", !.repos = repos, !.discovered = TRUE,
                               !.error = "No Git repositories found"]
                ELSE [t EXCEPT !.pc = "mining", !.repos = repos, !.discovered = TRUE,
                               !.idx = 1]]
    /\ UNCHANGED << jobs, job_data, job_reports, repositories, aside >>

\* run_analysis, lines 428-446: discovery and the two policy gates.
\* (None, message) is returned to job_manager.py:71.
Discover(k) ==
    /\ At(k, "analysis")
    /\ LET t == tasks[k]
           repos == find_git_repos(t.repo_path, t.recursive)
       IN  tasks' = [tasks EXCEPT ![k] =
                IF Len(repos) = 0
                THEN [t EXCEPT !.pc = "returned", !.repos = repos, !.discovered = TRUE,
                               !.error = "No Git repositories found"]
                ELSE IF ~t.skip_confirmation /\ Len(repos) > 1
                THEN [t EXCEPT !.pc = "returned", !.repos = repos, !.discovered = TRUE,
                               !.error = "Confirmation required for multiple repositories"]
                ELSE [t EXCEPT !.pc = "mining", !.repos = repos, !.discovered = TRUE,
                               !.idx = 1]]
    /\ UNCHANGED << jobs, job_data, job_reports, repositories, aside >>

\* run_analysis, lines 448-466 for one repository, and lines 495-513 after
\* the last: an exception anywhere returns (None, str(e)).
AnalyzeRepo(k) ==
    /\ At(k, "mining")
    /\ LET t == tasks[k]
           repo == t.repos[t.idx]
           a == analyze_repository(repo.path)
           entry == [name |-> repo.name, data |-> a.data,
                     report |-> ReportFile(t.job_id, repo.name)]
       IN  tasks' = [tasks EXCEPT ![k] =
                IF a.raised
                THEN [t EXCEPT !.pc = "returned", !.results = << >>, !.error = a.msg,
                               !.calls = @ + a.calls]
                ELSE [t EXCEPT !.pc = IF t.idx = Len(t.repos) THEN "returned" ELSE "mining",
                               !.idx = @ + 1,
                               !.results = Append(@, entry),
                               !.calls = @ + a.calls]]
    /\ UNCHANGED << jobs, job_data, job_reports, repositories, aside >>

\* The analysis data written for a job: the one repository's data (line 93)
\* or the whole results mapping (line 105).
Payload(kind, results) ==
    [kind |-> kind, repos |-> [i \in 1..Len(results) |-> results[i].data]]

\* SaveData, had the `if error: raise` of lines 80-81 been left out.
SaveData_IgnoresError(k, ok) ==
    /\ At(k, "returned")
    /\ LET t == tasks[k]
           single == Truthy(t.repo_id) /\ Len(t.results) = 1
       IN  IF Len(t.results) = 0
           THEN /\ tasks' = [tasks EXCEPT ![k] =
                        [t EXCEPT !.pc = "complete", !.report_path = << >>]]
                /\ UNCHANGED job_data
           ELSE IF ok
           THEN /\ job_data' = save_job_data(job_data, t.job_id,
                        Payload(IF single THEN "repo_data" ELSE "results", t.results))
                /\ tasks' = [tasks EXCEPT ![k] =
                        [t EXCEPT !.pc = IF single THEN "report" ELSE "complete",
                                  !.report_path = t.results[1].report]]
           ELSE /\ tasks' = [tasks EXCEPT ![k] = Raise(t, "save_job_data failed")]
                /\ UNCHANGED job_data
    /\ UNCHANGED << jobs, job_reports, repositories, aside >>

\* lines 80-107: raise on an error; save the data of the results.
SaveData(k, ok) ==
    /\ At(k, "returned")
    /\ LET t == tasks[k]
           single == Truthy(t.repo_id) /\ Len(t.results) = 1
       IN  IF Truthy(t.error)
           THEN /\ tasks' = [tasks EXCEPT ![k] = Raise(t, t.error)]
                /\ UNCHANGED job_data
           ELSE IF Len(t.results) = 0
           THEN /\ tasks' = [tasks EXCEPT ![k] =
                        [t EXCEPT !.pc = "complete", !.report_path = << >>]]
                /\ UNCHANGED job_data
           ELSE IF ok
           THEN /\ job_data' = save_job_data(job_data, t.job_id,
                        Payload(IF single THEN "repo_data" ELSE "results", t.results))
                /\ tasks' = [tasks EXCEPT ![k] =
                        [t EXCEPT !.pc = IF single THEN "report" ELSE "complete",
                                  !.report_path = t.results[1].report]]
           ELSE /\ tasks' = [tasks EXCEPT ![k] = Raise(t, "save_job_data failed")]
                /\ UNCHANGED job_data
    /\ UNCHANGED << jobs, job_reports, repositories, aside >>

ReportOutcomes == {"ok", "read failed", "save_job_report failed"}

\* lines 95-98: read the report file, save its content.
SaveReport(k, outcome) ==
    /\ At(k, "report")
    /\ LET t == tasks[k]
       IN  IF outcome = "ok"
           THEN /\ job_reports' = save_job_report(job_reports, t.job_id, t.report_path)
                /\ tasks' = [tasks EXCEPT ![k] = [t EXCEPT !.pc = "complete"]]
           ELSE /\ tasks' = [tasks EXCEPT ![k] = Raise(t, outcome)]
                /\ UNCHANGED job_reports
    /\ UNCHANGED << jobs, job_data, repositories, aside >>

\* Complete, had the update_job call of line 113 been left out.
Complete_Unwritten(k) ==
    /\ At(k, "complete")
    /\ LET t == tasks[k]
           job == [t.job EXCEPT !.status = "completed", !.completed_at = Timestamp,
                                !.report_path = t.report_path]
       IN  tasks' = [tasks EXCEPT ![k] =
                [t EXCEPT !.pc = IF Truthy(t.repo_id) /\ Len(t.results) > 0
                                 THEN "meta" ELSE "done",
                          !.job = job]]
    /\ UNCHANGED << jobs, job_data, job_reports, repositories, aside >>

\* lines 110-113: the job is marked completed.
Complete(k) ==
    /\ At(k, "complete")
    /\ LET t == tasks[k]
           job == [t.job EXCEPT !.status = "completed", !.completed_at = Timestamp,
                                !.report_path = t.report_path]
       IN  /\ jobs' = update_job(jobs, job)
           /\ tasks' = [tasks EXCEPT ![k] =
                    [t EXCEPT !.pc = IF Truthy(t.repo_id) /\ Len(t.results) > 0
                                     THEN "meta" ELSE "done",
                              !.job = job, !.writes = @ + 1]]
    /\ UNCHANGED << job_data, job_reports, repositories, aside >>

\* getTrackedRepository(id): the repository, or a failure.
get_repository(table, repo_id, ok) ==
    IF ok /\ repo_id \in DOMAIN table
    THEN [raised |-> FALSE, value |-> table[repo_id]]
    ELSE [raised |-> TRUE, value |-> << >>]

\* RepositoryService.update_repository: UPDATE repositories ... WHERE id.
update_repository(table, repo_id, repo) ==
    IF repo_id \in DOMAIN table THEN [table EXCEPT ![repo_id] = repo] ELSE table

MetaOutcomes == {"ok", "get failed", "update failed"}

\* UpdateRepositoryMetadata, had the assignment of line 145 been left out.
UpdateRepositoryMetadata_KeepsJobId(k, outcome) ==
    /\ At(k, "meta")
    /\ LET t == tasks[k]
           got == get_repository(repositories, t.repo_id, outcome # "get failed")
           summary == t.results[1].data.summary
           repo == [got.value EXCEPT
                        !.analysis_summary =
                            << [date |-> t.job.completed_at, job_id |-> t.job_id,
                                num_commits |-> summary.num_commits,
                                num_branches |-> summary.num_branches,
                                file_count |-> summary.file_count,
                                total_lines |-> summary.total_lines] >>,
                        !.last_commit_date =
                            IF summary.last_commit # << >> THEN summary.last_commit ELSE @]
       IN  /\ repositories' =
                IF got.raised \/ outcome = "update failed" THEN repositories
                ELSE update_repository(repositories, t.repo_id, repo)
           /\ tasks' = [tasks EXCEPT ![k] = [t EXCEPT !.pc = "done"]]
    /\ UNCHANGED << jobs, job_data, job_reports, aside >>

\* UpdateRepositoryMetadata, had the inner try of lines 117-151 been left
\* out: a failure reaches the except clause of line 153.
UpdateRepositoryMetadata_Unguarded(k, outcome) ==
    /\ At(k, "meta")
    /\ LET t == tasks[k]
           got == get_repository(repositories, t.repo_id, outcome # "get failed")
           summary == t.results[1].data.summary
           repo == [got.value EXCEPT
                        !.analysis_summary =
                            << [date |-> t.job.completed_at, job_id |-> t.job_id,
                                num_commits |-> summary.num_commits,
                                num_branches |-> summary.num_branches,
                                file_count |-> summary.file_count,
                                total_lines |-> summary.total_lines] >>,
                        !.last_commit_date =
                            IF summary.last_commit # << >> THEN summary.last_commit ELSE @,
                        !.last_analysis_job_id = << t.job_id >>]
       IN  IF got.raised \/ outcome = "update failed"
           THEN /\ repositories' = repositories
                /\ tasks' = [tasks EXCEPT ![k] = Raise(t, outcome)]
           ELSE /\ repositories' = update_repository(repositories, t.repo_id, repo)
                /\ tasks' = [tasks EXCEPT ![k] = [t EXCEPT !.pc = "done"]]
    /\ UNCHANGED << jobs, job_data, job_reports, aside >>

\* lines 116-151: the tracked repository's metadata, inside its own try;
\* a failure is printed and nothing else.
UpdateRepositoryMetadata(k, outcome) ==
    /\ At(k, "meta")
    /\ LET t == tasks[k]
           got == get_repository(repositories, t.repo_id, outcome # "get failed")
           summary == t.results[1].data.summary
           repo == [got.value EXCEPT
                        !.analysis_summary =
                            << [date |-> t.job.completed_at, job_id |-> t.job_id,
                                num_commits |-> summary.num_commits,
                                num_branches |-> summary.num_branches,
                                file_count |-> summary.file_count,
                                total_lines |-> summary.total_lines] >>,
                        !.last_commit_date =
                            IF summary.last_commit # << >> THEN summary.last_commit ELSE @,
                        !.last_analysis_job_id = << t.job_id >>]
       IN  /\ repositories' =
                IF got.raised \/ outcome = "update failed" THEN repositories
                ELSE update_repository(repositories, t.repo_id, repo)
           /\ tasks' = [tasks EXCEPT ![k] = [t EXCEPT !.pc = "done"]]
    /\ UNCHANGED << jobs, job_data, job_reports, aside >>

\* line 155, in the except clause: job = self.get_job(job_id); "Job not
\* found" raised here leaves run_analysis_task.
ExceptGetJob(k) ==
    /\ At(k, "except")
    /\ LET t == tasks[k]
       IN  tasks' = [tasks EXCEPT ![k] =
                IF t.job_id \in DOMAIN jobs
                THEN [t EXCEPT !.pc = "except2", !.job = jobs[t.job_id]]
                ELSE [t EXCEPT !.pc = "escaped", !.exc = "Job not found"]]
    /\ UNCHANGED << jobs, job_data, job_reports, repositories, aside >>

\* ExceptUpdateJob, had the update_job call of line 159 been left out.
ExceptUpdateJob_Unwritten(k) ==
    /\ At(k, "except2")
    /\ LET t == tasks[k]
           job == [t.job EXCEPT !.status = "failed", !.completed_at = Timestamp,
                                !.error = t.exc]
       IN  tasks' = [tasks EXCEPT ![k] = [t EXCEPT !.pc = "done", !.job = job]]
    /\ UNCHANGED << jobs, job_data, job_reports, repositories, aside >>

\* lines 156-159: the job is marked failed with the message.
ExceptUpdateJob(k) ==
    /\ At(k, "except2")
    /\ LET t == tasks[k]
           job == [t.job EXCEPT !.status = "failed", !.completed_at = Timestamp,
                                !.error = t.exc]
       IN  /\ jobs' = update_job(jobs, job)
           /\ tasks' = [tasks EXCEPT ![k] =
                    [t EXCEPT !.pc = "done", !.job = job, !.writes = @ + 1]]
    /\ UNCHANGED << job_data, job_reports, repositories, aside >>

\* One step of the run of task k.
TaskStep(k) ==
    \/ GetJob(k)
    \/ MarkRunning(k)
    \/ \E ok \in BOOLEAN : MakeOutputDir(k, ok)
    \/ Discover(k)
    \/ AnalyzeRepo(k)
    \/ \E ok \in BOOLEAN : SaveData(k, ok)
    \/ \E outcome \in ReportOutcomes : SaveReport(k, outcome)
    \/ Complete(k)
    \/ \E outcome \in MetaOutcomes : UpdateRepositoryMetadata(k, outcome)
    \/ ExceptGetJob(k)
    \/ ExceptUpdateJob(k)

Next ==
    \/ \E req \in Requests : start_analysis(req)
    \/ \E job_id \in JobIds : Resubmit(job_id)
    \/ \E req \in Requests : RunUnknown(req)
    \/ \E k \in 1..MaxTasks : TaskStep(k)

\* analyze_repository, lines 288-290, under run_analysis, line 452: the
\* file <REPORTS_DIR>/<job id>/<repository name>/repo_data.json.
DataFile(job_id, repo_name) == << job_id, repo_name, "repo_data.json" >>

\* The repo_data.json files the runs have written: one for each repository
\* a run has analysed.
DataFiles ==
    UNION {{DataFile(tasks[k].job_id, tasks[k].repos[i].name) :
                i \in 1..(tasks[k].idx - 1)} : k \in 1..Len(tasks)}

\* GET /jobs/{job_id}/data (routes.py): the status code of the answer; the
\* data is read from <REPORTS_DIR>/<job id>/repo_data.json.
get_data(job_id) ==
    IF job_id \notin DOMAIN jobs THEN 404
    ELSE IF jobs[job_id].status # "completed" THEN 400
    ELSE IF << job_id, "repo_data.json" >> \notin DataFiles THEN 404
    ELSE 200

\* One request for each way a run can go: no repository; one repository of
\* a tracked repository; three with a corrupt one; the confirmation gate;
\* three with one that cannot be entered.
LiveRequests ==
    { [repo_path |-> "/empty", recursive |-> TRUE, skip_confirmation |-> TRUE,
       repo_id |-> NULL],
      [repo_path |-> "/single", recursive |-> FALSE, skip_confirmation |-> FALSE,
       repo_id |-> "r1"],
      [repo_path |-> "/multi", recursive |-> TRUE, skip_confirmation |-> TRUE,
       repo_id |-> NULL],
      [repo_path |-> "/multi", recursive |-> FALSE, skip_confirmation |-> FALSE,
       repo_id |-> NULL],
      [repo_path |-> "/locked", recursive |-> FALSE, skip_confirmation |-> TRUE,
       repo_id |-> "r1"] }

LiveNext ==
    \/ \E req \in LiveRequests : start_analysis(req)
    \/ \E job_id \in JobIds : Resubmit(job_id)
    \/ \E req \in LiveRequests : RunUnknown(req)
    \/ \E k \in 1..MaxTasks : TaskStep(k)

Spec == Init /\ [][Next]_vars

\* The host runs every task it was handed: a started run is not abandoned.
FairSpec ==
    Init /\ [][LiveNext]_vars /\ \A k \in 1..MaxTasks : WF_vars(TaskStep(k))

(***************************************************************************)
(* The mining calls, step by step.  get_commit_history, get_branch_info    *)
(* and get_code_stats each save os.getcwd(), enter the repository, run     *)
(* git there and go back in a finally clause.  The working directory is    *)
(* the process's, shared by the threads the background tasks run on.       *)
(***************************************************************************)
MiningCalls == {"get_commit_history", "get_branch_info", "get_code_stats"}

\* One repository of each kind: ok, corrupt, unreadable.
MiningPaths == {"/single", "/multi/a/sub", "/locked/y"}

\* A mining call that has begun and not returned.
InCall(c) == c.pc \in {"saved", "inside", "finally"}

\* lines 61, 108, 147: original_dir = os.getcwd()
Enter(m, fn, p) ==
    /\ ~InCall(mining[m])
    /\ mining' = [n \in Threads |->
            IF n = m
            THEN [pc |-> "saved", fn |-> fn, repo_path |-> p, original_dir |-> cwd,
                  result |-> NULL, entered_from |-> cwd, left_in |-> NULL,
                  alone |-> \A o \in Threads \ {m} : ~InCall(mining[o])]
            ELSE IF InCall(mining[n]) THEN [mining[n] EXCEPT !.alone = FALSE]
            ELSE mining[n]]
    /\ UNCHANGED << jobs, job_data, job_reports, repositories, tasks, cwd, roots, found,
                    summaries, aggregate,
                    workers, history, sampled >>

\* lines 64, 111, 149: os.chdir(repo_path).  When it raises, the exception
\* leaves get_commit_history and get_branch_info, and get_code_stats turns
\* it into the zero statistics (line 193); the finally clause runs.
Chdir(m) ==
    /\ mining[m].pc = "saved"
    /\ LET c == mining[m]
       IN  IF Health(c.repo_path) = "unreadable"
           THEN /\ mining' = [mining EXCEPT ![m] =
                        [c EXCEPT !.pc = "finally",
                                  !.result = IF c.fn = "get_code_stats"
                                             THEN "zeros" ELSE "raised"]]
                /\ cwd' = cwd
           ELSE /\ mining' = [mining EXCEPT ![m] = [c EXCEPT !.pc = "inside"]]
                /\ cwd' = c.repo_path
    /\ UNCHANGED << jobs, job_data, job_reports, repositories, tasks, roots, found,
                    summaries, aggregate,
                    workers, history, sampled >>

\* lines 71-102, 115-141, 150-195: git is run in the working directory.
\* CalledProcessError gives the empty list, or the zero statistics.
RunTool(m) ==
    /\ mining[m].pc = "inside"
    /\ LET c == mining[m]
       IN  mining' = [mining EXCEPT ![m] =
                [c EXCEPT !.pc = "finally",
                          !.result = IF Health(cwd) # "ok"
                                     THEN IF c.fn = "get_code_stats"
                                          THEN "zeros" ELSE "empty"
                                     ELSE "value"]]
    /\ UNCHANGED << jobs, job_data, job_reports, repositories, tasks, cwd, roots, found,
                    summaries, aggregate,
                    workers, history, sampled >>

\* Restore, had os.chdir(original_dir) been the last statement of the try
\* block and not a finally clause.
Restore_OnSuccessOnly(m) ==
    /\ mining[m].pc = "finally"
    /\ LET c == mining[m]
           back == IF c.result = "value" THEN c.original_dir ELSE cwd
       IN  /\ cwd' = back
           /\ mining' = [mining EXCEPT ![m] =
                    [c EXCEPT !.pc = "returned", !.left_in = back]]
    /\ UNCHANGED << jobs, job_data, job_reports, repositories, tasks, roots, found,
                    summaries, aggregate,
                    workers, history, sampled >>

\* lines 103-104, 142-143, 196-197: finally: os.chdir(original_dir)
Restore(m) ==
    /\ mining[m].pc = "finally"
    /\ LET c == mining[m]
       IN  /\ cwd' = c.original_dir
           /\ mining' = [mining EXCEPT ![m] =
                    [c EXCEPT !.pc = "returned", !.left_in = c.original_dir]]
    /\ UNCHANGED << jobs, job_data, job_reports, repositories, tasks, roots, found,
                    summaries, aggregate,
                    workers, history, sampled >>

MineNext ==
    \/ \E m \in Threads, fn \in MiningCalls, p \in MiningPaths : Enter(m, fn, p)
    \/ \E m \in Threads : Chdir(m)
    \/ \E m \in Threads : RunTool(m)
    \/ \E m \in Threads : Restore(m)

\* The process with its threads making mining calls.
MineSpec == Init /\ [][MineNext]_vars

(***************************************************************************)
(* The Repository Discoverer over any placement of .git directories in     *)
(* the directory tree.                                                     *)
(***************************************************************************)
RECURSIVE DirsOf(_)
\* The directories of a list of sibling directories and of their subtrees.
DirsOf(ds) ==
    IF ds = << >> THEN {}
    ELSE {Head(ds)} \cup DirsOf(Children(Head(ds))) \cup DirsOf(Tail(ds))

\* The directories strictly below d.
Descendants(d) == DirsOf(Children(d))

AllDirs == UNION {{b} \cup Descendants(b) : b \in BaseDirs}

DiscoverInit ==
    /\ jobs = << >>
    /\ job_data = << >>
    /\ job_reports = << >>
    /\ repositories = [r \in TrackedIds |->
            [last_analysis_job_id |-> << >>, last_commit_date |-> << >>,
             analysis_summary |-> << >>]]
    /\ tasks = << >>
    /\ cwd = ServerDir
    /\ mining = [m \in Threads |-> IdleCall]
    /\ roots \in SUBSET AllDirs
    /\ found = NoDiscovery
    /\ summaries = << >>
    /\ aggregate = NoAggregate
    /\ workers = [m \in Threads |-> IdleWorker]
    /\ history = NoHistory
    /\ sampled = NoSample

\* A call find_git_repos(base_dir, recursive) and its answer.
Find(base_dir, recursive) ==
    /\ found' = [base_dir |-> base_dir, recursive |-> recursive,
                 repos |-> find_git_repos(base_dir, recursive)]
    /\ UNCHANGED << jobs, job_data, job_reports, repositories, tasks, cwd, mining,
                    roots, summaries, aggregate,
                    workers, history, sampled >>

DiscoverNext == \E base_dir \in BaseDirs, recursive \in BOOLEAN : Find(base_dir, recursive)

DiscoverSpec == DiscoverInit /\ [][DiscoverNext]_vars

(***************************************************************************)
(* Statistics Engine of repo_analyzer.py: calculate_repo_summary and       *)
(* calculate_aggregate_stats.  A commit is its commit_date in seconds.     *)
(***************************************************************************)
\* Bounds of the model: the commits of a summarised repository; the
\* repositories of an aggregate and the commits of each.
MaxCommits == 6
MaxRepos == 3
MaxGapCommits == 3

\* commit_date values: the same second, a minute, an hour, a day and a half.
Times == {0, 60, 3600, 129600}

RECURSIVE SumOf(_)
\* sum() of a sequence.
SumOf(s) == IF s = << >> THEN 0 ELSE Head(s) + SumOf(Tail(s))

\* time_diffs, lines 251-254: the gaps of consecutive sorted commits.
TimeDiffs(sorted_commits) ==
    [i \in 1..(Len(sorted_commits) - 1) |-> sorted_commits[i + 1] - sorted_commits[i]]

\* window_size of line 277.
WindowSize == 5

RECURSIVE PeakScan(_, _, _, _)
\* The loop of lines 281-287 from window i on: the best window so far is
\* kept unless the window at i is strictly shorter.  best is << >> while
\* best_window is None and best_window_duration is float('inf').
PeakScan(sorted_commits, i, last, best) ==
    IF i > last THEN best
    ELSE LET duration == sorted_commits[i + WindowSize - 1] - sorted_commits[i]
         IN  PeakScan(sorted_commits, i + 1, last,
                IF best = << >> \/ duration < best[1].duration
                THEN << [duration |-> duration, start |-> i] >>
                ELSE best)

\* lines 271-296: the peak window of more than 5 commits; the division of
\* line 296 raises ZeroDivisionError when the best duration is 0.
PeakPace(commits) ==
    LET sorted_commits == Sorted(commits)
        found_best == PeakScan(sorted_commits, 1, Len(commits) - WindowSize + 1, << >>)
        best == found_best[1]
    IN  IF Len(commits) <= 5 \/ found_best = << >>
        THEN [raised |-> FALSE, value |-> << >>]
        ELSE IF best.duration = 0
        THEN [raised |-> TRUE, value |-> << >>]
        ELSE [raised |-> FALSE,
              value |-> << [peak_pace_commits |-> WindowSize,
                            peak_pace_duration |-> best.duration,
                            peak_pace_start |-> sorted_commits[best.start],
                            peak_pace_end |-> sorted_commits[best.start + WindowSize - 1],
                            peak_commits_per_minute |->
                                Ratio(WindowSize * 60, best.duration)] >>]

\* calculate_repo_summary of repo_analyzer.py: [raised, value]; in value a
\* key that is absent is << >>.
RepoAnalyzer_calculate_repo_summary(repo_name, commits, branches, code_stats) ==
    LET earliest == MinOf(commits)
        latest == MaxOf(commits)
        time_diffs == TimeDiffs(Sorted(commits))
        peak == PeakPace(commits)
    IN  IF commits = << >>
        THEN [raised |-> FALSE,
              value |-> [num_commits |-> 0, num_branches |-> Len(branches),
                         total_lines |-> code_stats.total_lines,
                         first_commit |-> << >>, last_commit |-> << >>,
                         commits_per_day |-> << >>,
                         min_time_between_commits |-> << >>,
                         max_time_between_commits |-> << >>,
                         peak |-> << >>]]
        ELSE [raised |-> peak.raised,
              value |-> [num_commits |-> Len(commits), num_branches |-> Len(branches),
                         total_lines |-> code_stats.total_lines,
                         first_commit |-> << earliest >>, last_commit |-> << latest >>,
                         commits_per_day |->
                            << CommitsPerDay(Len(commits), latest - earliest) >>,
                         min_time_between_commits |->
                            << IF Len(commits) > 1 THEN MinOf(time_diffs) ELSE 0 >>,
                         max_time_between_commits |->
                            << IF Len(commits) > 1 THEN MaxOf(time_diffs) ELSE 0 >>,
                         peak |-> peak.value]]

\* TotalCommits, had line 310 summed num_branches (the line below it).
TotalCommits_SumsBranches(entries) ==
    SumOf([i \in 1..Len(entries) |-> entries[i].summary.num_branches])

\* line 310: sum(summary['num_commits'] for summary in summaries.values())
TotalCommits(entries) ==
    SumOf([i \in 1..Len(entries) |-> entries[i].summary.num_commits])

RECURSIVE FastestScan(_, _, _)
\* The loop of lines 348-352 from entry i on.  best is << >> while
\* best_pace is float('inf') and best_pace_repo is None.
FastestScan(entries, i, best) ==
    IF i > Len(entries) THEN best
    ELSE LET m == entries[i].summary.min_time_between_commits
         IN  FastestScan(entries, i + 1,
                IF m # << >> /\ m[1] > 0 /\ (best = << >> \/ m[1] < best[1].pace)
                THEN << [pace |-> m[1], repo |-> entries[i].name] >>
                ELSE best)

\* calculate_aggregate_stats over summary_stats in insertion order.
calculate_aggregate_stats(entries) ==
    LET firsts == SelectSeq([i \in 1..Len(entries) |-> entries[i].summary.first_commit],
                            LAMBDA x : x # << >>)
        lasts == SelectSeq([i \in 1..Len(entries) |-> entries[i].summary.last_commit],
                           LAMBDA x : x # << >>)
        earliest == MinOf([i \in 1..Len(firsts) |-> firsts[i][1]])
        latest == MaxOf([i \in 1..Len(lasts) |-> lasts[i][1]])
        best == FastestScan(entries, 1, << >>)
    IN  [called |-> TRUE,
         total_commits |-> TotalCommits(entries),
         total_branches |->
            SumOf([i \in 1..Len(entries) |-> entries[i].summary.num_branches]),
         total_lines |->
            SumOf([i \in 1..Len(entries) |-> entries[i].summary.total_lines]),
         repos_analyzed |-> Len(entries),
         first_commit |-> IF firsts = << >> THEN << >> ELSE << earliest >>,
         last_commit |-> IF lasts = << >> THEN << >> ELSE << latest >>,
         overall_commits_per_day |->
            IF firsts = << >> THEN Ratio(0, 1)
            ELSE CommitsPerDay(TotalCommits(entries), latest - earliest),
         fastest_pace |-> IF best = << >> THEN << >> ELSE << best[1].pace >>,
         fastest_pace_repo |-> IF best = << >> THEN << >> ELSE << best[1].repo >>]

\* The commit logs of at most n commits, in any order.
CommitLogs(n) == UNION {[1..k -> Times] : k \in 0..n}

\* summary_stats[repo_name] of line 441, with the log it was computed from
\* and the summary simplified_repo_analyzer.py computes from the same log.
Entry(name, commits) ==
    LET r == RepoAnalyzer_calculate_repo_summary(name, commits, << "main" >>,
                    [total_lines |-> Len(commits), file_count |-> 1])
    IN  [name |-> name, commits |-> commits, raised |-> r.raised, summary |-> r.value,
         service |-> calculate_repo_summary(name, commits, << "main" >>,
                        [total_lines |-> Len(commits), file_count |-> 1])]

\* One repository is summarised from its commit log.
Summarize(commits) ==
    /\ summaries = << >>
    /\ summaries' = << Entry(1, commits) >>
    /\ UNCHANGED << jobs, job_data, job_reports, repositories, tasks, cwd, mining,
                    roots, found, aggregate,
                    workers, history, sampled >>

SummaryNext == \E commits \in CommitLogs(MaxCommits) : Summarize(commits)

SummarySpec == Init /\ [][SummaryNext]_vars

\* analyze_repos, lines 422-441: the next repository is summarised.
AddRepo(commits) ==
    /\ Len(summaries) < MaxRepos
    /\ ~aggregate.called
    /\ summaries' = Append(summaries, Entry(Len(summaries) + 1, commits))
    /\ UNCHANGED << jobs, job_data, job_reports, repositories, tasks, cwd, mining,
                    roots, found, aggregate,
                    workers, history, sampled >>

\* analyze_repos, line 447.
Aggregate ==
    /\ ~aggregate.called
    /\ aggregate' = calculate_aggregate_stats(summaries)
    /\ UNCHANGED << jobs, job_data, job_reports, repositories, tasks, cwd, mining,
                    roots, found, summaries,
                    workers, history, sampled >>

AggregateNext ==
    \/ \E commits \in CommitLogs(MaxGapCommits) : AddRepo(commits)
    \/ Aggregate

AggregateSpec == Init /\ [][AggregateNext]_vars

(***************************************************************************)
(* run_analysis of simplified_repo_analyzer.py, lines 445-466, step by     *)
(* step, on the threads of the jobs that run at the same time.  Each       *)
(* thread analyses its repositories in discovery order; the working        *)
(* directory is the one of the process.                                    *)
(***************************************************************************)
\* The requests of the jobs.  Which thread runs which job makes no
\* difference, so the first thread has the job over two sound repositories
\* and the others a job over three, the second of them unreadable.
WorkRequests(m) ==
    IF m = 1
    THEN { [repo_path |-> "/multi", recursive |-> FALSE] }
    ELSE { [repo_path |-> "/locked", recursive |-> FALSE] }

\* git runs in a directory that is a sound repository; in any other it
\* exits non-zero (subprocess.CalledProcessError under check=True).
IsRepo(d) == d \in roots /\ Health(d) = "ok"

\* The repository a thread is analysing.
Repo(w) == w.repos[w.idx]

\* An entry of a thread's trace: the repository's index, the operation, and
\* 0 when the call begins, 1 when it has returned; for "diff" the index of
\* the commit in the commit sequence.
Event(w, op, k) == << w.idx, op, k >>

WorkFrame ==
    << jobs, job_data, job_reports, repositories, tasks, mining, roots, found,
       summaries, aggregate, history, sampled >>

\* lines 433-448: the repositories are discovered and the loop is entered.
Begin(m, req) ==
    /\ workers[m].pc = "idle"
    /\ LET repos == find_git_repos(req.repo_path, req.recursive)
       IN  workers' = [workers EXCEPT ![m] =
                IF repos = << >>
                THEN [@ EXCEPT !.pc = "done", !.error = "No Git repositories found"]
                ELSE [@ EXCEPT !.pc = "call", !.repos = repos, !.idx = 1,
                               !.fn = "get_commit_history"]]
    /\ UNCHANGED << cwd, WorkFrame >>

\* lines 61, 108, 147: original_dir = os.getcwd()
SaveDir(m) ==
    /\ workers[m].pc = "call"
    /\ LET w == workers[m]
       IN  workers' = [workers EXCEPT ![m] =
                [w EXCEPT !.pc = "saved", !.original_dir = cwd,
                          !.issued = Append(@, Event(w, w.fn, 0))]]
    /\ UNCHANGED << cwd, WorkFrame >>

\* lines 64, 111, 149-153: os.chdir(repo_path); in get_code_stats the
\* return of the zero statistics when there is no commit.
EnterRepo(m) ==
    /\ workers[m].pc = "saved"
    /\ LET w == workers[m]
       IN  IF Health(Repo(w).path) = "unreadable"
           THEN /\ cwd' = cwd
                /\ workers' = [workers EXCEPT ![m] =
                        IF w.fn = "get_code_stats"
                        THEN [w EXCEPT !.pc = "finally", !.total_lines = 0,
                                       !.file_count = 0]
                        ELSE [w EXCEPT !.pc = "finally", !.raised = TRUE,
                                       !.error = ChdirError]]
           ELSE /\ cwd' = Repo(w).path
                /\ workers' = [workers EXCEPT ![m] =
                        IF w.fn # "get_code_stats" THEN [w EXCEPT !.pc = "inside"]
                        ELSE IF w.commits.log = << >>
                        THEN [w EXCEPT !.pc = "finally", !.total_lines = 0,
                                       !.file_count = 0]
                        ELSE [w EXCEPT !.pc = "diff", !.i = 1, !.total_lines = 0]]
    /\ UNCHANGED WorkFrame

\* lines 71-102, 115-141: git log, git branch in the working directory.
RunGit(m) ==
    /\ workers[m].pc = "inside"
    /\ LET w == workers[m]
       IN  workers' = [workers EXCEPT ![m] =
                IF w.fn = "get_commit_history"
                THEN [w EXCEPT !.pc = "finally",
                               !.commits = [origin |-> cwd,
                                            log |-> IF IsRepo(cwd) THEN LogOf(cwd)
                                                    ELSE << >>]]
                ELSE [w EXCEPT !.pc = "finally",
                               !.branches = IF IsRepo(cwd) THEN BranchesOf(cwd)
                                            ELSE << >>]]
    /\ UNCHANGED << cwd, WorkFrame >>

\* DiffCommit, had the loop of line 156 been over reversed(commits).
DiffCommit_Reversed(m) ==
    /\ workers[m].pc = "diff"
    /\ LET w == workers[m]
           c == Len(w.commits.log) + 1 - w.i
           ok == cwd = w.commits.origin /\ IsRepo(cwd)
       IN  workers' = [workers EXCEPT ![m] =
                [w EXCEPT !.pc = IF w.i = Len(w.commits.log) THEN "walk" ELSE "diff",
                          !.i = @ + 1,
                          !.total_lines =
                                @ + IF ok THEN InsertionsOf(w.commits.origin, c) ELSE 0,
                          !.issued = Append(@, Event(w, "diff", c))]]
    /\ UNCHANGED << cwd, WorkFrame >>

\* lines 156-170: git diff --shortstat of the i-th commit of the sequence,
\* in the working directory; a commit the repository there does not have
\* makes git exit non-zero, and the commit is skipped.
DiffCommit(m) ==
    /\ workers[m].pc = "diff"
    /\ LET w == workers[m]
           ok == cwd = w.commits.origin /\ IsRepo(cwd)
       IN  workers' = [workers EXCEPT ![m] =
                [w EXCEPT !.pc = IF w.i = Len(w.commits.log) THEN "walk" ELSE "diff",
                          !.i = @ + 1,
                          !.total_lines =
                                @ + IF ok THEN InsertionsOf(w.commits.origin, w.i) ELSE 0,
                          !.issued = Append(@, Event(w, "diff", w.i))]]
    /\ UNCHANGED << cwd, WorkFrame >>

\* lines 172-186: the source files under '.', the working directory.
CountFiles(m) ==
    /\ workers[m].pc = "walk"
    /\ workers' = [workers EXCEPT ![m] =
            [@ EXCEPT !.pc = "finally", !.file_count = SourceFilesOf(cwd)]]
    /\ UNCHANGED << cwd, WorkFrame >>

\* lines 103-104, 142-143, 196-197: finally: os.chdir(original_dir); then
\* the next call of analyze_repository, or, with an exception, the except
\* clause of run_analysis (line 511), which returns (None, str(e)).
LeaveRepo(m) ==
    /\ workers[m].pc = "finally"
    /\ LET w == workers[m]
           left == [w EXCEPT !.issued = Append(@, Event(w, w.fn, 1))]
       IN  /\ cwd' = w.original_dir
           /\ workers' = [workers EXCEPT ![m] =
                    IF w.raised THEN [left EXCEPT !.pc = "done", !.results = << >>]
                    ELSE IF w.fn = "get_commit_history"
                    THEN [left EXCEPT !.pc = "call", !.fn = "get_branch_info"]
                    ELSE IF w.fn = "get_branch_info"
                    THEN [left EXCEPT !.pc = "call", !.fn = "get_code_stats"]
                    ELSE [left EXCEPT !.pc = "summary"]]
    /\ UNCHANGED WorkFrame

\* analyze_repository, line 260, and run_analysis, lines 462-466: the
\* summary and the repository's entry of results; then the next repository.
SummarizeRepo(m) ==
    /\ workers[m].pc = "summary"
    /\ LET w == workers[m]
           stats == [total_lines |-> w.total_lines, file_count |-> w.file_count]
           data == [path |-> Repo(w).path, commits |-> w.commits.log,
                    branches |-> w.branches, code_stats |-> stats,
                    summary |-> calculate_repo_summary(Repo(w).path, w.commits.log,
                                                       w.branches, stats)]
           last == w.idx = Len(w.repos)
       IN  workers' = [workers EXCEPT ![m] =
                [w EXCEPT !.pc = IF last THEN "done" ELSE "call",
                          !.fn = IF last THEN NULL ELSE "get_commit_history",
                          !.idx = IF last THEN @ ELSE @ + 1,
                          !.commits = NoLog, !.branches = << >>,
                          !.total_lines = 0, !.file_count = 0, !.i = 0,
                          !.results = Append(@, data),
                          !.issued = Append(@, Event(w, "calculate_repo_summary", 0))]]
    /\ UNCHANGED << cwd, WorkFrame >>

WorkNext ==
    \/ \E m \in Threads : \E req \in WorkRequests(m) : Begin(m, req)
    \/ \E m \in Threads : SaveDir(m)
    \/ \E m \in Threads : EnterRepo(m)
    \/ \E m \in Threads : RunGit(m)
    \/ \E m \in Threads : DiffCommit(m)
    \/ \E m \in Threads : CountFiles(m)
    \/ \E m \in Threads : LeaveRepo(m)
    \/ \E m \in Threads : SummarizeRepo(m)

\* The analysis loops of the jobs that run at the same time.
WorkSpec == Init /\ [][WorkNext]_vars

(***************************************************************************)
(* The parse of the `git log` output in get_commit_history, lines 74-99    *)
(* (repo_analyzer.py, lines 107-132).  A line is the number of its         *)
(* '|'-delimited fields, 0 for an empty line, and whether its 4th and 7th  *)
(* fields are integers; a commit is the index of the line it is made from. *)
(***************************************************************************)
\* Bound of the model: the lines of a log.
MaxLines == 3

\* An empty line, a line without a delimiter, a line cut short, a line of
\* the 8 fields of the format, a line with a '|' more.
PartCounts == {0, 1, 7, 8, 9}

LogLines == [parts : PartCounts, timestamps : BOOLEAN]

Logs == UNION {[1..k -> LogLines] : k \in 0..MaxLines}

RECURSIVE ParseLines(_, _, _)
\* The loop of lines 74-97 from line k on: an empty line and a line of
\* fewer than 8 fields are skipped; int() of a field that is no integer
\* raises ValueError, which no except clause of the function catches.
ParseLines(lines, k, commits) ==
    IF k > Len(lines) THEN [raised |-> FALSE, commits |-> commits]
    ELSE IF lines[k].parts = 0 THEN ParseLines(lines, k + 1, commits)
    ELSE IF lines[k].parts < 8 THEN ParseLines(lines, k + 1, commits)
    ELSE IF ~lines[k].timestamps THEN [raised |-> TRUE, commits |-> << >>]
    ELSE ParseLines(lines, k + 1, Append(commits, k))

\* get_commit_history on a repository whose git log prints the lines.
Parse(lines) ==
    /\ history = NoHistory
    /\ history' = [called |-> TRUE, lines |-> lines,
                   raised |-> ParseLines(lines, 1, << >>).raised,
                   commits |-> ParseLines(lines, 1, << >>).commits]
    /\ UNCHANGED << jobs, job_data, job_reports, repositories, tasks, cwd, mining,
                    roots, found, summaries, aggregate, workers, sampled >>

ParseNext == \E lines \in Logs : Parse(lines)

ParseSpec == Init /\ [][ParseNext]_vars

(***************************************************************************)
(* The diff loop of get_code_stats, lines 155-170 (repo_analyzer.py,       *)
(* lines 194-210).  The diff of a commit is the exit status of git and     *)
(* the insertion count of its shortstat line, << >> when the output has    *)
(* none.                                                                   *)
(***************************************************************************)
\* Bound of the model: the commits handed to get_code_stats.
MaxDiffs == 4

DiffOutcomes == [status : {"ok", "failed"}, insertions : {<< >>, << 1 >>, << 3 >>}]

DiffRuns == UNION {[1..k -> DiffOutcomes] : k \in 1..MaxDiffs}

RECURSIVE DiffLoop_NoInnerTry(_, _, _, _)
\* DiffLoop, had the try of lines 162-170 been left out: the first
\* CalledProcessError reaches the except clause of line 193, which returns
\* the zero statistics.
DiffLoop_NoInnerTry(diffs, i, total_lines, ran) ==
    IF i > Len(diffs) THEN [total_lines |-> total_lines, ran |-> ran]
    ELSE IF diffs[i].status = "failed"
    THEN [total_lines |-> 0, ran |-> Append(ran, i)]
    ELSE DiffLoop_NoInnerTry(diffs, i + 1,
            total_lines + (IF diffs[i].insertions = << >> THEN 0
                           ELSE diffs[i].insertions[1]),
            Append(ran, i))

RECURSIVE DiffLoop(_, _, _, _)
\* The loop of lines 156-170 from commit i on: subprocess.run of the diff;
\* CalledProcessError is passed over; the number in front of "insertion"
\* is added when the output has one.  ran lists the commits diffed.
DiffLoop(diffs, i, total_lines, ran) ==
    IF i > Len(diffs) THEN [total_lines |-> total_lines, ran |-> ran]
    ELSE IF diffs[i].status = "failed"
    THEN DiffLoop(diffs, i + 1, total_lines, Append(ran, i))
    ELSE DiffLoop(diffs, i + 1,
            total_lines + (IF diffs[i].insertions = << >> THEN 0
                           ELSE diffs[i].insertions[1]),
            Append(ran, i))

\* get_code_stats on commits whose diffs come out as given.
Sample(diffs) ==
    /\ sampled = NoSample
    /\ sampled' = [called |-> TRUE, diffs |-> diffs,
                   total_lines |-> DiffLoop(diffs, 1, 0, << >>).total_lines,
                   ran |-> DiffLoop(diffs, 1, 0, << >>).ran]
    /\ UNCHANGED << jobs, job_data, job_reports, repositories, tasks, cwd, mining,
                    roots, found, summaries, aggregate, workers, history >>

SampleNext == \E diffs \in DiffRuns : Sample(diffs)

SampleSpec == Init /\ [][SampleNext]_vars

(***************************************************************************)
(* Properties of the Job Orchestrator.                                     *)
(***************************************************************************)
Tasks == 1..Len(tasks)

\* The runs handed to the host for a job.
RunsOf(job_id) == {k \in Tasks : tasks[k].job_id = job_id}

Terminal == {"completed", "failed"}

\* The step in which run k returns to the host.
Ends(k) == tasks[k].pc # "done" /\ tasks'[k].pc = "done"

\* The pcs of a run that is in, or past, the except clause of line 153, or
\* that has the (None, message) of run_analysis in hand.
Failing == {"returned", "except", "except2", "done"}

StatusSteps ==
    { << "pending", "running" >>, << "running", "completed" >>,
      << "running", "failed" >> }

\* C1: a job that was created and is run once is always in one of pending,
\* running, completed, failed; it is pending when created, and its status
\* only changes pending -> running, running -> completed, running -> failed.
C1_StatusLifecycle ==
    [][\A j \in DOMAIN jobs' :
         Cardinality(RunsOf(j)') <= 1 =>
            /\ jobs'[j].status \in {"pending", "running", "completed", "failed"}
            /\ j \notin DOMAIN jobs => jobs'[j].status = "pending"
            /\ (j \in DOMAIN jobs /\ jobs'[j].status # jobs[j].status) =>
                    << jobs[j].status, jobs'[j].status >> \in StatusSteps]_vars

\* Two jobs, each run once: one has ended completed, the other failed.
C1_Witness ==
    \E i, j \in DOMAIN jobs :
        /\ Cardinality(RunsOf(i)) = 1 /\ Cardinality(RunsOf(j)) = 1
        /\ \A k \in RunsOf(i) \cup RunsOf(j) : tasks[k].pc = "done"
        /\ jobs[i].status = "completed" /\ jobs[j].status = "failed"

\* C2: once the status of a job is completed or failed, no step changes it.
C2_TerminalIsFinal ==
    [][\A j \in DOMAIN jobs :
         jobs[j].status \in Terminal => jobs'[j].status = jobs[j].status]_vars

\* C3: a run whose discovery found no repository ends with the job failed,
\* the error "No Git repositories found", and no data payload for the job.
C3_ZeroRepoPolicy ==
    [][\A k \in Tasks :
         LET t == tasks'[k]
             j == t.job_id
         IN  (t.discovered /\ t.repos = << >>) =>
                /\ t.pc \in Failing
                /\ Ends(k) =>
                      /\ jobs'[j].status = "failed"
                      /\ jobs'[j].error = "No Git repositories found"
                      /\ j \notin DOMAIN job_data']_vars

\* A run over a directory without repositories has ended.
C3_Witness ==
    \E k \in Tasks :
        /\ tasks[k].pc = "done" /\ tasks[k].discovered /\ tasks[k].repos = << >>
        /\ jobs[tasks[k].job_id].status = "failed"

\* C4: a run whose discovery found two or more repositories, without
\* skip_confirmation, makes no mining call and ends with the job failed and
\* the error "Confirmation required for multiple repositories".
C4_ConfirmationGate ==
    [][\A k \in Tasks :
         LET t == tasks'[k]
             j == t.job_id
         IN  (t.discovered /\ Len(t.repos) >= 2 /\ ~t.skip_confirmation) =>
                /\ t.calls = 0
                /\ t.pc \in Failing
                /\ Ends(k) =>
                      /\ jobs'[j].status = "failed"
                      /\ jobs'[j].error =
                            "Confirmation required for multiple repositories"]_vars

\* A run stopped by the confirmation gate has ended.
C4_Witness ==
    \E k \in Tasks :
        /\ tasks[k].pc = "done" /\ tasks[k].discovered
        /\ Len(tasks[k].repos) >= 2 /\ ~tasks[k].skip_confirmation
        /\ jobs[tasks[k].job_id].status = "failed"

\* The failures of the run's own storage and filesystem calls.
StorageFaults ==
    {"makedirs failed", "save_job_data failed"} \cup (ReportOutcomes \ {"ok"})

\* The repositories of a run whose History Extractor call raises.
Throwing(t) ==
    {i \in 1..Len(t.repos) : get_commit_history(t.repos[i].path).raised}

AllZero(summary) ==
    /\ summary.num_commits = 0 /\ summary.num_branches = 0
    /\ summary.total_lines = 0 /\ summary.file_count = 0

\* C5: a run over three discovered repositories, the extractor call of
\* exactly one of them raising and nothing else failing, ends with the job
\* completed and a payload of two non-empty summaries and one all-zero one.
C5_PartialFailureResilience ==
    [][\A k \in Tasks :
         LET t == tasks'[k]
             j == t.job_id
         IN  (/\ Ends(k) /\ t.discovered /\ Len(t.repos) = 3 /\ t.skip_confirmation
              /\ Cardinality(Throwing(t)) = 1
              /\ t.exc \notin StorageFaults) =>
                /\ jobs'[j].status = "completed"
                /\ j \in DOMAIN job_data'
                /\ LET rs == job_data'[j].repos
                   IN  /\ Len(rs) = 3
                       /\ Cardinality({i \in 1..3 : AllZero(rs[i].summary)}) = 1
                       /\ Cardinality({i \in 1..3 : rs[i].summary.num_commits > 0}) = 2
       ]_vars

\* C6: a run that has marked its job running has written the job record
\* once until it ends, and twice when it has ended (the metadata update that
\* follows the completed write writes nothing to the record).
C6_ExactlyOneTerminalWrite ==
    \A k \in Tasks :
        LET t == tasks[k]
        IN  /\ t.pc \in {"start", "loaded"} => t.writes = 0
            /\ t.pc \in {"done", "meta"} /\ t.job_id \in DOMAIN jobs => t.writes = 2
            /\ t.writes >= 1 =>
                  /\ t.pc # "escaped"
                  /\ t.writes = IF t.pc \in {"done", "meta"} THEN 2 ELSE 1

\* Two runs have ended, one with the completed write, one with the failed one.
C6_Witness ==
    \E k1, k2 \in Tasks :
        /\ tasks[k1].pc = "done" /\ tasks[k1].job.status = "completed"
        /\ tasks[k1].writes = 2
        /\ tasks[k2].pc = "done" /\ tasks[k2].job.status = "failed"
        /\ tasks[k2].writes = 2

\* The message of the exception a run of an existing job has met, NULL when
\* it has met none.
Raised(t) == IF t.exc # NULL THEN t.exc ELSE t.error

Started(j) == \E k \in Tasks : tasks[k].job_id = j /\ tasks[k].pc # "start"

\* C8: a job that exists and has a run that has started is eventually
\* completed or failed.
C8_RunReachesTerminal ==
    \A j \in JobIds :
        (j \in DOMAIN jobs /\ Started(j)) ~>
            (j \in DOMAIN jobs /\ jobs[j].status \in Terminal)

\* The runs of a job have all returned and the job is completed or failed.
C8_Witness ==
    \E j \in DOMAIN jobs :
        /\ RunsOf(j) # {}
        /\ \A k \in RunsOf(j) : tasks[k].pc = "done"
        /\ jobs[j].status \in Terminal

\* C9: the step that creates a job inserts a pending record with no
\* completed_at, report_path or error; the job's run has not begun (no
\* discovery, no mining call); no other record, payload, report, tracked
\* repository or run has changed.
C9_CreateJobFrame ==
    [][\A j \in DOMAIN jobs' \ DOMAIN jobs :
         /\ jobs'[j].status = "pending" /\ jobs'[j].completed_at = NULL
         /\ jobs'[j].report_path = << >> /\ jobs'[j].error = NULL
         /\ \A i \in DOMAIN jobs : jobs'[i] = jobs[i]
         /\ \A k \in 1..Len(tasks') :
                tasks'[k].job_id = j =>
                    /\ k \notin Tasks
                    /\ tasks'[k].pc = "start" /\ ~tasks'[k].discovered
                    /\ tasks'[k].calls = 0 /\ tasks'[k].writes = 0
         /\ \A k \in Tasks : tasks'[k] = tasks[k]
         /\ job_data' = job_data /\ job_reports' = job_reports
         /\ repositories' = repositories]_vars

\* A job is pending, its run not begun, next to a job that is completed.
C9_Witness ==
    \E i, j \in DOMAIN jobs :
        /\ i < j /\ jobs[i].status = "completed" /\ i \in DOMAIN job_data
        /\ jobs[j].status = "pending"
        /\ \A k \in RunsOf(j) : tasks[k].pc = "start"

\* C10: the step of a run that reads and updates the tracked repository,
\* failing or not, ends the run and leaves the jobs table and the run's
\* count of writes as they are.
C10_MetadataFailureIsHarmless ==
    [][\A k \in Tasks :
         (tasks[k].pc = "meta" /\ tasks'[k] # tasks[k]) =>
            /\ tasks'[k].pc = "done"
            /\ jobs' = jobs
            /\ tasks'[k].writes = tasks[k].writes
            /\ tasks'[k].job.status = "completed"]_vars

\* A run for a tracked repository has ended, its job is completed, and the
\* tracked repository was never updated: the update failed.
C10_Witness ==
    \E k \in Tasks :
        /\ tasks[k].pc = "done" /\ Truthy(tasks[k].repo_id)
        /\ Len(tasks[k].results) > 0 /\ tasks[k].exc = NULL
        /\ jobs[tasks[k].job_id].status = "completed"
        /\ repositories[tasks[k].repo_id].last_analysis_job_id = << >>

C12_PayloadIsComplete ==
    \A k \in Tasks :
        LET t == tasks[k]
            j == t.job_id
        IN  (t.pc \in {"meta", "done"} /\ t.job.status = "completed") =>
                /\ j \in DOMAIN job_data
                /\ Len(job_data[j].repos) = Len(t.repos)
                /\ \A i \in 1..Len(t.repos) :
                        job_data[j].repos[i].path = t.repos[i].path
                /\ "aggregate_stats" \in DOMAIN job_data[j]

\* C13: a mining call during which no other mining call was in progress
\* returns with the working directory it was entered from, whatever it
\* returns: a value, the empty list or zero statistics, or an exception.
C13_WorkingDirectoryRestored ==
    \A m \in Threads :
        (mining[m].pc = "returned" /\ mining[m].alone) =>
            mining[m].left_in = mining[m].entered_from

\* A call alone in the process has raised, another has returned the empty
\* list, and the working directory is the server's.
C13_Witness ==
    \E m, n \in Threads :
        /\ mining[m].pc = "returned" /\ mining[m].alone /\ mining[m].result = "raised"
        /\ mining[n].pc = "returned" /\ mining[n].alone /\ mining[n].result = "empty"
        /\ cwd = ServerDir

\* C14: no two threads are at the same time between the os.chdir into a
\* repository and the os.chdir back.
C14_MiningSectionExclusive ==
    \A m, n \in Threads :
        (m # n) => ~(mining[m].pc = "inside" /\ mining[n].pc = "inside")

\* C15: in a run over two or more repositories none of which raises, a
\* repository where git exits non-zero gets empty commits and branches, the
\* mining goes on to the repositories after it and returns no error, and
\* the run, when nothing else fails, completes the job.
C15_NonZeroExitIsAbsorbed ==
    \A k \in Tasks :
        LET t == tasks[k]
        IN  (/\ t.discovered /\ Len(t.repos) >= 2 /\ t.skip_confirmation
             /\ \A i \in 1..Len(t.repos) : Health(t.repos[i].path) # "unreadable") =>
                /\ t.error = NULL
                /\ t.pc = "mining" => Len(t.results) = t.idx - 1
                /\ t.pc # "mining" => Len(t.results) = Len(t.repos)
                /\ \A i \in 1..Len(t.results) :
                        Health(t.repos[i].path) = "corrupt" =>
                            /\ t.results[i].data.commits = << >>
                            /\ t.results[i].data.branches = << >>
                /\ (t.pc = "done" /\ t.exc = NULL) => t.job.status = "completed"

\* A run over three repositories, one of them corrupt, has completed its job.
C15_Witness ==
    \E k \in Tasks :
        /\ tasks[k].pc = "done" /\ Len(tasks[k].results) = 3
        /\ \E i \in 1..3 : Health(tasks[k].repos[i].path) = "corrupt"
        /\ jobs[tasks[k].job_id].status = "completed"
        /\ tasks[k].job_id \in DOMAIN job_data

\* The paths of an answer of the discoverer.
PathsOf(repos) == {repos[i].path : i \in 1..Len(repos)}

\* C16: an answer of the discoverer holds no path twice; it holds only
\* directories with .git at or below the base directory; without recursive
\* no path of it is below another, and every root that is not below another
\* root of the subtree is in it; with recursive every root is in it.
C16_DiscoveryDedupAndPruning ==
    (found.base_dir # NULL) =>
        LET repos == found.repos
            under == ({found.base_dir} \cup Descendants(found.base_dir)) \cap roots
            top == {d \in under : \A a \in under : d \notin Descendants(a)}
        IN  /\ \A i, j \in 1..Len(repos) : repos[i].path = repos[j].path => i = j
            /\ PathsOf(repos) \subseteq under
            /\ ~found.recursive =>
                    /\ \A i, j \in 1..Len(repos) :
                            repos[i].path \notin Descendants(repos[j].path)
                    /\ top \subseteq PathsOf(repos)
            /\ found.recursive => under \subseteq PathsOf(repos)

\* Without recursive, two sibling repositories are found and the repository
\* nested in one of them is not.
C16_Witness ==
    /\ found.base_dir = "/multi" /\ ~found.recursive
    /\ {"/multi/a", "/multi/a/sub", "/multi/b"} \subseteq roots
    /\ PathsOf(found.repos) = {"/multi/a", "/multi/b"}

\* C24: a job whose record says completed has its data payload in the
\* job_data table, written before the record was, and the reader of the
\* job's data, GET /jobs/{job_id}/data, answers with the data.
C24_CompletedHasReadableData ==
    \A j \in DOMAIN jobs :
        jobs[j].status = "completed" =>
            /\ j \in DOMAIN job_data
            /\ get_data(j) = 200

\* C25: a job whose record says failed has no row in job_data and no row
\* in job_reports, whichever step of the run raised.
C25_FailedStoresNothing ==
    \A j \in DOMAIN jobs :
        jobs[j].status = "failed" =>
            /\ j \notin DOMAIN job_data
            /\ j \notin DOMAIN job_reports

\* C26: the fields of every job record agree with its status, also when
\* run_analysis_task is issued twice for one job: pending or running has
\* neither completed_at nor error, completed has completed_at and no error,
\* failed has both.
C26_FieldsAgreeWithStatus ==
    \A j \in DOMAIN jobs :
        LET job == jobs[j]
        IN  /\ job.status \in {"pending", "running"} =>
                ~Truthy(job.completed_at) /\ ~Truthy(job.error)
            /\ job.status = "completed" =>
                Truthy(job.completed_at) /\ ~Truthy(job.error)
            /\ job.status = "failed" =>
                Truthy(job.completed_at) /\ Truthy(job.error)

\* C29: a step of a run whose job id has no record changes no job record
\* and no data payload, and does not end with the exception leaving
\* run_analysis_task.
C29_UnknownJobIsHandled ==
    [][\A k \in 1..Len(tasks) :
            tasks[k].job_id = UnknownId /\ tasks'[k] # tasks[k] =>
                /\ jobs' = jobs
                /\ job_data' = job_data
                /\ tasks'[k].pc # "escaped"]_vars

(***************************************************************************)
(* Properties of the Statistics Engine.                                    *)
(***************************************************************************)
\* The number of pairs (repository, k) with k at most the repository's
\* num_commits: the sum of the counts, counted without adding.
CountedCommits(entries) ==
    Cardinality({p \in (1..Len(entries)) \X (1..MaxGapCommits) :
                    p[2] <= entries[p[1]].summary.num_commits})

\* C17: once the aggregate of a run is computed, its total_commits is exactly
\* the sum of num_commits over the run's repository summaries; a repository
\* with no commits has num_commits 0, adds nothing, and the aggregate is
\* still computed.
C17_TotalCommitsIsExactSum ==
    aggregate.called =>
        /\ aggregate.total_commits = CountedCommits(summaries)
        /\ aggregate.repos_analyzed = Len(summaries)
        /\ \A k \in 1..Len(summaries) :
                summaries[k].commits = << >> => summaries[k].summary.num_commits = 0

\* Three repositories with 3, 0 and 2 commits give a total of 5.
C17_Witness ==
    /\ aggregate.called
    /\ Len(summaries) = 3
    /\ Len(summaries[1].commits) = 3
    /\ summaries[2].commits = << >>
    /\ Len(summaries[3].commits) = 2
    /\ aggregate.total_commits = 5

RECURSIVE Gcd(_, _)
Gcd(a, b) == IF b = 0 THEN a ELSE Gcd(b, a % b)

\* a / b = c / d for positive b and d, compared in lowest terms.
SameQuotient(a, b, c, d) ==
    /\ a \div Gcd(a, b) = c \div Gcd(c, d)
    /\ b \div Gcd(a, b) = d \div Gcd(c, d)

\* first, last and rate are those of the log c: first and last are the least
\* and the greatest commit_date, and rate is count over the larger of one day
\* and the span in days (rate.num / rate.den = count * Day / max(Day, span)).
Chronological(c, count, first, last, rate) ==
    LET stamps == {c[i] : i \in 1..Len(c)}
        span == last - first
    IN  /\ count = Len(c)
        /\ first <= last
        /\ first \in stamps /\ \A t \in stamps : first <= t
        /\ last \in stamps /\ \A t \in stamps : t <= last
        /\ rate.den > 0
        /\ SameQuotient(rate.num, rate.den,
                        count * Day, IF span > Day THEN span ELSE Day)

\* C18: every summary computed from at least one commit, by either
\* calculate_repo_summary and for any order of the log, has first_commit <=
\* last_commit, these two are the least and the greatest commit_date, and
\* commits_per_day is num_commits / max(1, span in days).
C18_ChronologicalSummary ==
    \A k \in 1..Len(summaries) :
        LET e == summaries[k]
        IN  e.commits # << >> =>
                /\ e.service.first_commit # << >>
                /\ Chronological(e.commits, e.service.num_commits,
                                 e.service.first_commit[1], e.service.last_commit[1],
                                 e.service.commits_per_day[1])
                /\ ~e.raised =>
                        /\ e.summary.first_commit # << >>
                        /\ Chronological(e.commits, e.summary.num_commits,
                                         e.summary.first_commit[1],
                                         e.summary.last_commit[1],
                                         e.summary.commits_per_day[1])

\* A log given newest first that spans a day and a half: 3 commits, 2 a day.
C18_Witness ==
    /\ Len(summaries) = 1
    /\ summaries[1].commits = << 129600, 60, 0 >>
    /\ ~summaries[1].raised
    /\ summaries[1].summary.first_commit = << 0 >>
    /\ summaries[1].summary.last_commit = << 129600 >>
    /\ SameQuotient(summaries[1].summary.commits_per_day[1].num,
                    summaries[1].summary.commits_per_day[1].den, 2, 1)
    /\ summaries[1].service.commits_per_day = summaries[1].summary.commits_per_day

\* The durations of all windows of WindowSize consecutive commits of the
\* chronologically sorted log c.
WindowDurations(c) ==
    {Sorted(c)[i + WindowSize - 1] - Sorted(c)[i] : i \in 1..(Len(c) - WindowSize + 1)}

\* C19: for a log of 6 or more commits in any order a summary is returned
\* whose peak window has the least duration of all windows of 5 consecutive
\* commits of the sorted log; for fewer than 6 commits the summary has no
\* peak window.
C19_PeakWindowIsMinimum ==
    \A k \in 1..Len(summaries) :
        LET e == summaries[k]
        IN  /\ ~e.raised
            /\ Len(e.commits) < 6 => e.summary.peak = << >>
            /\ Len(e.commits) >= 6 =>
                    /\ e.summary.peak # << >>
                    /\ e.summary.peak[1].peak_pace_duration \in WindowDurations(e.commits)
                    /\ \A d \in WindowDurations(e.commits) :
                            e.summary.peak[1].peak_pace_duration <= d

\* C30: calculate_repo_summary returns a summary, and raises nothing, for
\* every log of 6 commits or more; when 5 consecutive commits of the sorted
\* log have one timestamp, the summary has the peak window with duration 0.
C30_SummaryNeverRaises ==
    \A k \in 1..Len(summaries) :
        LET e == summaries[k]
        IN  Len(e.commits) >= 6 =>
                /\ ~e.raised
                /\ 0 \in WindowDurations(e.commits) =>
                        /\ e.summary.peak # << >>
                        /\ e.summary.peak[1].peak_pace_duration = 0

\* The gaps between any two commits of the log c; the least of them is the
\* least gap between consecutive commits in chronological order.
Gaps(c) ==
    {IF c[p[1]] < c[p[2]] THEN c[p[2]] - c[p[1]] ELSE c[p[1]] - c[p[2]] :
        p \in {q \in (1..Len(c)) \X (1..Len(c)) : q[1] < q[2]}}

MinGap(c) == CHOOSE g \in Gaps(c) : \A h \in Gaps(c) : g <= h

\* C20: when some repository of the run has two commits or more, the
\* aggregate's fastest_pace is the least, over those repositories, of the
\* repository's least gap between commits, and fastest_pace_repo is the
\* first repository analysed whose least gap is that.
C20_FastestPaceIsMinimumGap ==
    LET paced == {k \in 1..Len(summaries) : Len(summaries[k].commits) >= 2}
        fastest == CHOOSE k \in paced :
                        \A j \in paced :
                            \/ MinGap(summaries[k].commits) < MinGap(summaries[j].commits)
                            \/ /\ MinGap(summaries[k].commits) = MinGap(summaries[j].commits)
                               /\ k <= j
    IN  (aggregate.called /\ paced # {}) =>
            /\ aggregate.fastest_pace = << MinGap(summaries[fastest].commits) >>
            /\ aggregate.fastest_pace_repo = << summaries[fastest].name >>

(***************************************************************************)
(* Properties of the analysis loop.                                        *)
(***************************************************************************)
\* The entry q may come right after the entry p in the trace of a thread.
Follows(p, q) ==
    LET r == p[1]
    IN  CASE p[2] = "get_commit_history" /\ p[3] = 0 ->
                q = << r, "get_commit_history", 1 >>
          [] p[2] = "get_commit_history" /\ p[3] = 1 ->
                q = << r, "get_branch_info", 0 >>
          [] p[2] = "get_branch_info" /\ p[3] = 0 ->
                q = << r, "get_branch_info", 1 >>
          [] p[2] = "get_branch_info" /\ p[3] = 1 ->
                q = << r, "get_code_stats", 0 >>
          [] p[2] = "get_code_stats" /\ p[3] = 0 ->
                q \in {<< r, "diff", 1 >>, << r, "get_code_stats", 1 >>}
          [] p[2] = "diff" ->
                q \in {<< r, "diff", p[3] + 1 >>, << r, "get_code_stats", 1 >>}
          [] p[2] = "get_code_stats" /\ p[3] = 1 ->
                q = << r, "calculate_repo_summary", 0 >>
          [] OTHER ->
                q = << r + 1, "get_commit_history", 0 >>

\* C21: in the analysis loop of a job, whatever the other jobs do, the
\* calls come one after the other: for each repository in discovery order
\* get_commit_history, get_branch_info, get_code_stats and
\* calculate_repo_summary, each returned before the next begins and the
\* summary made before the first call for the next repository; inside
\* get_code_stats the diffs are issued for commit 1, 2, ... of the commit
\* sequence, and all of them before the files are counted.
C21_SequentialProcessing ==
    \A m \in Threads :
        LET w == workers[m]
            tr == w.issued
        IN  /\ tr # << >> => tr[1] = << 1, "get_commit_history", 0 >>
            /\ \A k \in 1..(Len(tr) - 1) : Follows(tr[k], tr[k + 1])
            /\ w.pc = "walk" => tr[Len(tr)] = << w.idx, "diff", Len(w.commits.log) >>
            /\ \A k \in 1..Len(tr) : tr[k][1] <= Len(w.repos)

\* A job has analysed its two repositories, the first with two diffs, while
\* the other job is inside a call.
C21_Witness ==
    \E m, n \in Threads :
        /\ workers[m].pc = "done" /\ workers[m].error = NULL
        /\ Len(workers[m].results) = 2
        /\ \E k \in 1..Len(workers[m].issued) : workers[m].issued[k] = << 1, "diff", 2 >>
        /\ workers[m].issued[Len(workers[m].issued)] = << 2, "calculate_repo_summary", 0 >>
        /\ workers[n].pc \in {"saved", "inside", "diff", "walk", "finally"}

\* The data stored for a repository are the repository's own: its log, its
\* branches and the insertions of its commits.
OwnData(data) ==
    /\ data.commits = LogOf(data.path)
    /\ data.branches = BranchesOf(data.path)
    /\ data.code_stats.total_lines = SumInsertions(data.path, Len(LogOf(data.path)))

\* C27: with two jobs running at the same time, every git log, git branch
\* and git diff issued for a repository runs while the working directory of
\* the process is that repository, and the commits, branches and insertion
\* count stored for a repository are its own.
C27_GitRunsInItsRepository ==
    [][/\ \A m \in Threads :
            RunGit(m) \/ DiffCommit(m) => cwd = Repo(workers[m]).path
       /\ \A m \in Threads :
            \A k \in 1..Len(workers'[m].results) : OwnData(workers'[m].results[k])]_vars

\* C28: when the jobs that ran at the same time have all ended, the working
\* directory of the process is the one it had before any of them started.
C28_WorkingDirectoryRestored ==
    (\A m \in Threads : workers[m].pc = "done") => cwd = ServerDir

(***************************************************************************)
(* Properties of the History Extractor and the Code Volume Sampler.        *)
(***************************************************************************)
\* C22: get_commit_history returns, in the order of the log, one commit for
\* each non-empty line of 8 fields or more and none for the other lines,
\* and no line makes it raise.
C22_DefensiveParsing ==
    history.called =>
        /\ ~history.raised
        /\ history.commits =
                SelectSeq([k \in 1..Len(history.lines) |-> k],
                          LAMBDA k : history.lines[k].parts >= 8)

\* The inserted lines of the diffs that succeeded, one element for each
\* line: their number is the sum of the insertion counts.
InsertedLines(diffs) ==
    UNION {{<< k, u >> : u \in 1..diffs[k].insertions[1]} :
            k \in {j \in 1..Len(diffs) : /\ diffs[j].status = "ok"
                                         /\ diffs[j].insertions # << >>}}

\* C23: get_code_stats diffs every commit of the sequence, a failed diff or
\* not before it, and total_lines is the sum of the insertion counts of the
\* diffs that succeeded, a diff without an insertion count adding nothing.
C23_DiffFailureIsSkipped ==
    sampled.called =>
        /\ sampled.ran = [k \in 1..Len(sampled.diffs) |-> k]
        /\ sampled.total_lines = Cardinality(InsertedLines(sampled.diffs))

\* Four commits: 1 insertion, a failed diff, no insertion count, 3 insertions.
C23_Witness ==
    /\ sampled.called
    /\ Len(sampled.diffs) = 4
    /\ sampled.diffs[1] = [status |-> "ok", insertions |-> << 1 >>]
    /\ sampled.diffs[2] = [status |-> "failed", insertions |-> << 3 >>]
    /\ sampled.diffs[3] = [status |-> "ok", insertions |-> << >>]
    /\ sampled.diffs[4] = [status |-> "ok", insertions |-> << 3 >>]
    /\ sampled.total_lines = 4

====
